---- MODULE Spec2Model ----
(***************************************************************************)
(* Stm32Loader: the host side of the STM32 system bootloader protocol over *)
(* a serial port (src/src/serial.rs) and over spidev (src/src/spi.rs).     *)
(*                                                                         *)
(* One connection runs one operation at a time.  Every exchange with the   *)
(* link (a write, a read, a full-duplex transfer) is answered by the       *)
(* environment: the bytes the device sends, a timeout or another I/O error.*)
(* The model keeps what a link test double would record: the frames handed *)
(* to the link, the number of calls of each kind, the pauses, and a        *)
(* summary of the statuses seen by the current poll loop.                  *)
(***************************************************************************)
EXTENDS Integers, Sequences, FiniteSets, TLC

(***************************************************************************)
(* Bounds of the model.                                                    *)
(***************************************************************************)
\* payloads of up to MaxLen bytes are enumerated over every content
MaxLen == 2
\* read-memory request sizes 0..MaxSize
MaxSize == 3
\* the device delivers at most MaxStream bytes after a request
MaxStream == 4
\* one port.read returns at most MaxFrag bytes
MaxFrag == 3

(***************************************************************************)
(* Protocol constants.                                                     *)
(***************************************************************************)
ACK == 121
NAK == 31
\* the sync byte of the serial handshake
SYNC == 127
\* the leading byte of every SPI command transfer
SOF == 90
\* "busy" and "already configured" statuses tolerated by the SPI poll loops
BUSY == 255
DONE == 165
\* write_memory accepts 1..MaxWriteLen bytes
MaxWriteLen == 256
\* the accumulation buffers of serial.rs
BufLen == 255

Byte == 0..255

RECURSIVE BitXor(_, _)
\* the u8 ^ operator
BitXor(a, b) ==
    IF a = 0 THEN b
    ELSE IF b = 0 THEN a
    ELSE (((a % 2) + (b % 2)) % 2) + 2 * BitXor(a \div 2, b \div 2)

RECURSIVE XorRange(_, _, _)
\* s[lo] ^ ... ^ s[hi], lo <= hi.  The code folds from the left starting with
\* the first byte; ^ is associative, and the fold is evaluated here by halves
\* to keep the evaluation depth logarithmic.
XorRange(s, lo, hi) ==
    IF lo = hi THEN s[lo]
    ELSE LET mid == (lo + hi) \div 2
         IN BitXor(XorRange(s, lo, mid), XorRange(s, mid + 1, hi))

\* a checksum that is only the last byte
calculate_checksum_last_byte(data) == data[Len(data)]

\* fn calculate_checksum(data: &[u8]) -> u8; data is never empty at a call site
calculate_checksum(data) == XorRange(data, 1, Len(data))

\* u32::to_be_bytes
to_be_bytes(a) ==
    << a \div 16777216, (a \div 65536) % 256, (a \div 256) % 256, a % 256 >>

\* the 5-byte address frame of read_memory, write_memory and go (serial.rs)
AddressFrame(a) == to_be_bytes(a) \o << calculate_checksum(to_be_bytes(a)) >>

\* the command frame [command, command ^ 0xFF]
CommandFrame(command) == << command, BitXor(command, 255) >>

(***************************************************************************)
(* Results: Ok, the variants of DfuLoaderError, and Panic for a Rust panic.*)
(***************************************************************************)
Res(kind, code, io, bytes) == [kind |-> kind, code |-> code, io |-> io, bytes |-> bytes]

None == Res("None", 0, "", <<>>)
Ok == Res("Ok", 0, "", <<>>)
OkBytes(bytes) == Res("Ok", 0, "", bytes)
OkInfo(version, functions) == Res("Ok", version, "", functions)
SyncError == Res("SyncError", 0, "", <<>>)
AlreadySynced == Res("AlreadySynced", 0, "", <<>>)
ProtocolError == Res("ProtocolError", 0, "", <<>>)
IOError(k) == Res("IOError", 0, k, <<>>)
NotImplemented == Res("NotImplemented", 0, "", <<>>)
Timeout == Res("Timeout", 0, "", <<>>)
CommandFailed(b) == Res("CommandFailed", b, "", <<>>)
Panic == Res("Panic", 0, "", <<>>)

(***************************************************************************)
(* What the link can answer.                                               *)
(***************************************************************************)
\* std::io::ErrorKind: the timeout and any other kind
IoKinds == {"TimedOut", "Other"}

\* a write succeeds or fails with an io::Error
WriteOutcomes == {"ok"} \cup IoKinds

\* status bytes a device can put on the link
StatusBytes == {ACK, NAK, BUSY, DONE, 0}

\* a one-byte read (or the status byte of an SPI transfer): a byte or an io::Error
ReadOutcomes ==
    [t : {"byte"}, b : StatusBytes, k : {""}] \cup [t : {"err"}, b : {0}, k : IoKinds]

\* the summary tag of a read outcome: the byte, -1 for a timeout, -2 for another error
Tag(r) == IF r.t = "byte" THEN r.b ELSE IF r.k = "TimedOut" THEN -1 ELSE -2

\* data bytes a device can deliver: WriteMemory, and ACK (an unknown opcode)
DataBytes == {49, ACK}

RECURSIVE SeqsUpTo(_, _)
\* all sequences over S of length at most n
SeqsUpTo(S, n) ==
    IF n = 0 THEN {<<>>}
    ELSE LET shorter == SeqsUpTo(S, n - 1)
         IN shorter \cup {Append(s, x) : s \in {q \in shorter : Len(q) = n - 1}, x \in S}

\* a payload of n bytes with a fixed content
PatternPayload(n) == [j \in 1..n |-> ((7 * j) + 3) % 256]

\* the payloads callers pass to write_memory: every short one, and long ones
\* around the limit of the length check
Payloads ==
    SeqsUpTo({0, 18, 255}, MaxLen)
        \cup {PatternPayload(n) : n \in (MaxWriteLen - 1)..(MaxWriteLen + 1)}

\* 0x08000000 and 0x1FFFC008 (main.rs) and 0x12345678
Addresses == {134217728, 536854536, 305419896}

\* the addresses main.rs reads from
ReadAddresses == {134217728, 536854536}

Engines == {"Serial", "SPI"}

VARIABLES
    overflow_checks,  \* the build panics on integer overflow (debug) or wraps (release)
    engine,           \* the transport of the connection
    op,               \* the operation in progress, "idle" between operations
    pc,               \* the next step of the operation
    address, data, size,  \* the caller's arguments
    i,                \* iteration counter of the current loop
    length,           \* the length byte the device sent
    response,         \* bytes accumulated so far by a read loop
    stream,           \* the bytes the device delivers after the request
    cursor,           \* how many bytes of stream the link has delivered
    link,             \* the link's record: frames written, calls of each kind
    sleeps,           \* pauses taken: count and total milliseconds
    poll,             \* summary of the poll loops: polls, last status, statuses seen
    result,           \* None while the operation runs, then its return value
    session           \* the CLI session of main.rs: position, calls made, their results

vars == << overflow_checks, engine, op, pc, address, data, size, i, length,
           response, stream, cursor, link, sleeps, poll, result, session >>

Link0 == [tx |-> <<>>, writes |-> 0, reads |-> 0, xfers |-> 0, fault |-> "", status |-> -1]
Sleeps0 == [n |-> 0, ms |-> 0]
\* main has opened the connection and is about to call initialize
Session0 ==
    [at |-> "initialize", cmd |-> "", calls |-> <<>>, rets |-> <<>>, base |-> 0, recs |-> 0, file |-> <<>>]
Poll0 == [n |-> 0, last |-> -3, loop |-> "", seen |-> {}, firstAck |-> 0, absorbed |-> {}]

\* thread::sleep(ms)
Sleep(S, ms) == [n |-> S.n + 1, ms |-> S.ms + ms]

\* one more poll of the named loop answered r; retried says the loop absorbed
\* the answer and went on to its pause
Observe(P, loop, r, retried) ==
    [n |-> P.n + 1,
     last |-> Tag(r),
     loop |-> loop,
     seen |-> P.seen \cup {Tag(r)},
     firstAck |-> IF P.firstAck = 0 /\ Tag(r) = ACK THEN P.n + 1 ELSE P.firstAck,
     absorbed |-> IF retried THEN P.absorbed \cup {<< loop, Tag(r) >>} ELSE P.absorbed]

\* number of calls made on the link
Exchanges(L) == L.writes + L.reads + L.xfers

(***************************************************************************)
(* Link primitives, as functions from the link record to the link record.  *)
(***************************************************************************)
\* the link remembers the kind of the last io::Error it reported
Fault(L, k) == IF k \in IoKinds THEN [L EXCEPT !.fault = k] ELSE L
\* port.write_all / spi.write: the frame is handed to the link
LinkWrite(L, frame, k) ==
    Fault([L EXCEPT !.tx = Append(@, frame), !.writes = @ + 1], k)
\* port.read / port.read_exact / spi.read_exact
LinkRead(L, k) == Fault([L EXCEPT !.reads = @ + 1], k)
\* spi.transfer: full duplex, the frame is clocked out while the reply comes in
LinkTransfer(L, frame, k) ==
    Fault([L EXCEPT !.tx = Append(@, frame), !.xfers = @ + 1], k)

Out(L, res) == [link |-> L, res |-> res]

(***************************************************************************)
(* serial.rs helpers.                                                      *)
(***************************************************************************)
\* the link remembers the last status byte it delivered: to read_ack, or in
\* rx_buf[4] of an SPI command transfer, or in rx_buf[1] of an SPI ack frame
Status(L, r) == IF r.t = "byte" THEN [L EXCEPT !.status = r.b] ELSE L

\* a read_ack that reports every non-ACK byte as a ProtocolError
read_ack_loses_status(L, r) ==
    Out(Status(LinkRead(L, r.k), r),
        IF r.t = "err" THEN IOError(r.k)
        ELSE IF r.b # ACK THEN ProtocolError
        ELSE Ok)

\* fn read_ack
read_ack(L, r) ==
    Out(Status(LinkRead(L, r.k), r),
        IF r.t = "err" THEN IOError(r.k)
        ELSE IF r.b # ACK THEN CommandFailed(r.b)
        ELSE Ok)

\* fn send_command
send_command(L, command, w, r) ==
    IF w # "ok" THEN Out(LinkWrite(L, CommandFrame(command), w), ProtocolError)
    ELSE read_ack(LinkWrite(L, CommandFrame(command), w), r)

\* self.port.write_all(frame)?; read_ack(&mut self.port)
write_then_ack(L, frame, w, r) ==
    IF w # "ok" THEN Out(LinkWrite(L, frame, w), IOError(w))
    ELSE read_ack(LinkWrite(L, frame, w), r)

(***************************************************************************)
(* spi.rs helpers.                                                         *)
(***************************************************************************)
\* SpiConnection::send_command: rx_buf[4] must be ACK
Spi_send_command(L, command, r) ==
    Out(Status(LinkTransfer(L, << SOF, command, BitXor(command, 255), 0, 0, ACK >>, r.k), r),
        IF r.t = "err" THEN IOError(r.k)
        ELSE IF r.b # ACK THEN ProtocolError
        ELSE Ok)

\* SpiConnection::ack_frame: rx_buf[1] must be ACK
Spi_ack_frame(L, r) ==
    Out(Status(LinkTransfer(L, << 0, 0, ACK >>, r.k), r),
        IF r.t = "err" THEN IOError(r.k)
        ELSE IF r.b # ACK THEN CommandFailed(r.b)
        ELSE Ok)

\* SpiConnection::send_address
Spi_send_address(L, a, w) ==
    LET b == to_be_bytes(a)
        frame == b \o << BitXor(BitXor(BitXor(b[1], b[2]), b[3]), b[4]) >>
    IN Out(LinkWrite(L, frame, w), IF w # "ok" THEN IOError(w) ELSE Ok)

\* SpiConnection::write_block
Spi_write_block(L, block, w) ==
    Out(LinkWrite(L, block, w), IF w # "ok" THEN IOError(w) ELSE Ok)

\* an ack frame exchanged whether or not the step before it succeeded
then_ack_frame_pipelined(o, r) == Spi_ack_frame(o.link, r)

\* a helper followed by ack_frame()?: the ack frame is exchanged only after success
then_ack_frame(o, r) == IF o.res.kind = "Ok" THEN Spi_ack_frame(o.link, r) ELSE o

(***************************************************************************)
(* Control: an operation advances to its next step or returns.             *)
(***************************************************************************)
Running(e, o, p) == engine = e /\ op = o /\ pc = p /\ result = None

\* the ? operator: an error returns it, success goes on to the next step
Advance(res, next) ==
    IF res.kind = "Ok" THEN pc' = next /\ result' = result
    ELSE pc' = "done" /\ result' = res

\* the operation returns res
Return(res) == pc' = "done" /\ result' = res

Init ==
    /\ overflow_checks \in BOOLEAN
    /\ engine \in Engines
    /\ op = "idle" /\ pc = "idle"
    /\ address = 0 /\ data = <<>> /\ size = 0
    /\ i = 0 /\ length = 0 /\ response = <<>> /\ stream = <<>> /\ cursor = 0
    /\ link = Link0 /\ sleeps = Sleeps0 /\ poll = Poll0
    /\ result = None
    /\ session = Session0

\* an operation starts on a fresh link record
Start(o, a, d, s, st) ==
    /\ op = "idle"
    /\ op' = o /\ pc' = "start"
    /\ address' = a /\ data' = d /\ size' = s /\ stream' = st
    /\ i' = 0 /\ length' = 0 /\ response' = <<>> /\ cursor' = 0
    /\ link' = Link0 /\ sleeps' = Sleeps0 /\ poll' = Poll0
    /\ result' = None
    /\ UNCHANGED << overflow_checks, engine >>

\* a caller of the DfuLoader trait starts an operation
Begin(o, a, d, s, st) == Start(o, a, d, s, st) /\ UNCHANGED session

\* the operation has returned; the connection is free for the next one
Returned ==
    /\ op # "idle" /\ result # None
    /\ op' = "idle" /\ pc' = "idle"
    /\ address' = 0 /\ data' = <<>> /\ size' = 0 /\ stream' = <<>>
    /\ i' = 0 /\ length' = 0 /\ response' = <<>> /\ cursor' = 0
    /\ link' = Link0 /\ sleeps' = Sleeps0 /\ poll' = Poll0
    /\ result' = None
    /\ UNCHANGED << overflow_checks, engine >>

\* a caller of the DfuLoader trait has its result
Finished == Returned /\ UNCHANGED session

\* variables an ordinary step leaves alone
Args == << overflow_checks, engine, op, address, data, size, stream, session >>

(***************************************************************************)
(* write_memory, serial.rs.                                                *)
(***************************************************************************)
\* a length check that is off by one at the upper limit
LenRejectedOffByOne(len) == len >= MaxWriteLen \/ len = 0

\* the length check shared by both engines: data.len() > 256 || data.len() == 0
LenRejected(len) == len > MaxWriteLen \/ len = 0

\* `let mut data = [0u8; 5]` shadows the payload: the frame built afterwards
\* from `data` is built from the 5-byte address frame
Serial_write_memory_out(a, payload) ==
    LET shadow == AddressFrame(a)
        out == << (Len(shadow) - 1) % 256 >> \o shadow
    IN out \o << calculate_checksum(out) >>

CallWriteMemory ==
    /\ op = "idle"
    /\ \E a \in Addresses, d \in Payloads : Begin("write_memory", a, d, 0, <<>>)

Serial_write_memory_command ==
    /\ Running("Serial", "write_memory", "start")
    /\ \E w \in WriteOutcomes, r \in ReadOutcomes :
         LET o == IF LenRejected(Len(data)) THEN Out(link, ProtocolError)
                  ELSE send_command(link, 49, w, r)
         IN link' = o.link /\ Advance(o.res, "address")
    /\ UNCHANGED << Args, i, length, response, cursor, sleeps, poll >>

Serial_write_memory_address ==
    /\ Running("Serial", "write_memory", "address")
    /\ \E w \in WriteOutcomes, r \in ReadOutcomes :
         LET o == write_then_ack(link, AddressFrame(address), w, r)
         IN link' = o.link /\ Advance(o.res, "data")
    /\ UNCHANGED << Args, i, length, response, cursor, sleeps, poll >>

Serial_write_memory_data ==
    /\ Running("Serial", "write_memory", "data")
    /\ \E w \in WriteOutcomes, r \in ReadOutcomes :
         LET o == write_then_ack(link, Serial_write_memory_out(address, data), w, r)
         IN link' = o.link /\ Return(o.res)
    /\ UNCHANGED << Args, i, length, response, cursor, sleeps, poll >>

(***************************************************************************)
(* write_memory, spi.rs.                                                   *)
(***************************************************************************)
\* a block that is never padded
Spi_write_memory_block_never_pads(payload) ==
    LET head == << (Len(payload) - 1) % 256 >> \o payload
    IN Append(head, XorRange(head, 1, Len(head)))

\* the block: [len-1] ++ data ++ (0xFF if len is odd) ++ checksum
Spi_write_memory_block(payload) ==
    LET len == Len(payload)
        head == << (len - 1) % 256 >> \o payload
        block == IF len % 2 = 1 THEN Append(head, 255) ELSE head
    IN Append(block, XorRange(block, 1, Len(block)))

Spi_write_memory_command ==
    /\ Running("SPI", "write_memory", "start")
    /\ \E r \in ReadOutcomes :
         LET o == IF LenRejected(Len(data)) THEN Out(link, ProtocolError)
                  ELSE Spi_send_command(link, 49, r)
         IN link' = o.link /\ Advance(o.res, "address")
    /\ UNCHANGED << Args, i, length, response, cursor, sleeps, poll >>

Spi_write_memory_address ==
    /\ Running("SPI", "write_memory", "address")
    /\ \E w \in WriteOutcomes, r \in ReadOutcomes :
         LET o == then_ack_frame(Spi_send_address(link, address, w), r)
         IN link' = o.link /\ Advance(o.res, "block")
    /\ UNCHANGED << Args, i, length, response, cursor, sleeps, poll >>

Spi_write_memory_write ==
    /\ Running("SPI", "write_memory", "block")
    /\ \E w \in WriteOutcomes, r \in ReadOutcomes :
         LET o == then_ack_frame(Spi_write_block(link, Spi_write_memory_block(data), w), r)
         IN link' = o.link /\ Return(o.res)
    /\ UNCHANGED << Args, i, length, response, cursor, sleeps, poll >>

(***************************************************************************)
(* initialize, serial.rs.                                                  *)
(***************************************************************************)
SyncAttempts == 10

\* an initialize that retries on NAK
initialize_match_nak_retries(r) ==
    IF r.t = "err" THEN (IF r.k = "TimedOut" THEN "retry" ELSE "fail")
    ELSE IF r.b = ACK THEN "ok" ELSE "retry"

\* the match on the read of one attempt: a timeout and any byte other than
\* ACK and NAK fall through to the pause, ACK and NAK return Ok, any other
\* error returns it
initialize_match(r) ==
    IF r.t = "err" THEN (IF r.k = "TimedOut" THEN "retry" ELSE "fail")
    ELSE IF r.b = ACK \/ r.b = NAK THEN "ok" ELSE "retry"

\* `Err(Timeout())` after the loop
initialize_exhausted == Timeout

CallInitialize == op = "idle" /\ Begin("initialize", 0, <<>>, 0, <<>>)

\* one iteration of `for _ in 0..10`
Serial_initialize_attempt ==
    /\ Running("Serial", "initialize", "start")
    /\ \E w \in WriteOutcomes, r \in ReadOutcomes :
         LET sent == LinkWrite(link, << SYNC >>, w)
             m == initialize_match(r)
         IN IF w # "ok"
            THEN /\ link' = sent /\ Return(IOError(w))
                 /\ UNCHANGED << i, sleeps, poll >>
            ELSE /\ link' = LinkRead(sent, r.k)
                 /\ poll' = Observe(poll, "Serial.initialize", r, m = "retry")
                 /\ IF m = "ok" THEN Return(Ok) /\ UNCHANGED << i, sleeps >>
                    ELSE IF m = "fail" THEN Return(IOError(r.k)) /\ UNCHANGED << i, sleeps >>
                    ELSE /\ sleeps' = Sleep(sleeps, 500)
                         /\ i' = i + 1
                         /\ IF i + 1 = SyncAttempts THEN Return(initialize_exhausted)
                            ELSE UNCHANGED << pc, result >>
    /\ UNCHANGED << Args, length, response, cursor >>

(***************************************************************************)
(* erase_all, serial.rs.                                                   *)
(***************************************************************************)
EraseAttempts == 20

\* the global erase request [0xFF, 0xFF, 0x00]
erase_request == << 255, 255, 0 >>

\* an erase_all that retries on every error of read_ack
erase_all_match_retries_all(res) == IF res.kind = "Ok" THEN "ok" ELSE "retry"

\* the match on read_ack in the poll loop
erase_all_match(res) ==
    IF res.kind = "Ok" THEN "ok"
    ELSE IF res.kind = "IOError" /\ res.io = "TimedOut" THEN "retry"
    ELSE "fail"

\* `Err(DfuLoaderError::Timeout())` after the loop
erase_all_exhausted == Timeout

CallEraseAll == op = "idle" /\ Begin("erase_all", 0, <<>>, 0, <<>>)

Serial_erase_all_command ==
    /\ Running("Serial", "erase_all", "start")
    /\ \E w \in WriteOutcomes, r \in ReadOutcomes, w2 \in WriteOutcomes :
         LET c == send_command(link, 68, w, r)
             o == IF c.res.kind # "Ok" THEN c
                  ELSE Out(LinkWrite(c.link, erase_request, w2),
                           IF w2 # "ok" THEN IOError(w2) ELSE Ok)
         IN link' = o.link /\ Advance(o.res, "poll")
    /\ UNCHANGED << Args, i, length, response, cursor, sleeps, poll >>

\* one iteration of `for _ in 0..20`
Serial_erase_all_poll ==
    /\ Running("Serial", "erase_all", "poll")
    /\ \E r \in ReadOutcomes :
         LET o == read_ack(link, r)
             m == erase_all_match(o.res)
         IN /\ link' = o.link
            /\ poll' = Observe(poll, "Serial.erase_all", r, m = "retry")
            /\ IF m = "ok" THEN Return(Ok) /\ UNCHANGED << i, sleeps >>
               ELSE IF m = "fail" THEN Return(o.res) /\ UNCHANGED << i, sleeps >>
               ELSE /\ sleeps' = Sleep(sleeps, 1000)
                    /\ i' = i + 1
                    /\ IF i + 1 = EraseAttempts THEN Return(erase_all_exhausted)
                       ELSE UNCHANGED << pc, result >>
    /\ UNCHANGED << Args, length, response, cursor >>

(***************************************************************************)
(* write_unprotect, spi.rs (the DfuLoader implementation).                 *)
(***************************************************************************)
UnprotectFirstPolls == 10
UnprotectSecondPolls == 20

\* a first loop that returns Ok on ACK instead of breaking
unprotect_first_match_returns(res) ==
    IF res.kind = "Ok" THEN "return"
    ELSE IF res = CommandFailed(BUSY) THEN "retry"
    ELSE "fail"

\* the match of the first loop: Ok breaks out of the loop
unprotect_first_match(res) ==
    IF res.kind = "Ok" THEN "break"
    ELSE IF res = CommandFailed(BUSY) THEN "retry"
    ELSE "fail"

\* the match of the second loop: Ok returns Ok
unprotect_second_match(res) ==
    IF res.kind = "Ok" THEN "return"
    ELSE IF res = CommandFailed(BUSY) \/ res = CommandFailed(DONE) THEN "retry"
    ELSE "fail"

\* a write_unprotect that falls through to Ok when the second loop runs out
unprotect_exhausted_ok == Ok

\* `Err(Timeout())` after the second loop
unprotect_exhausted == Timeout

CallWriteUnprotect == op = "idle" /\ Begin("write_unprotect", 0, <<>>, 0, <<>>)

Spi_write_unprotect_command ==
    /\ Running("SPI", "write_unprotect", "start")
    /\ \E r \in ReadOutcomes :
         LET o == Spi_send_command(link, 115, r)
         IN link' = o.link /\ Advance(o.res, "poll1")
    /\ UNCHANGED << Args, i, length, response, cursor, sleeps, poll >>

\* one iteration of the first loop, `for _ in 0..10`
Spi_write_unprotect_poll1 ==
    /\ Running("SPI", "write_unprotect", "poll1")
    /\ \E r \in ReadOutcomes :
         LET o == Spi_ack_frame(link, r)
             m == unprotect_first_match(o.res)
         IN /\ link' = o.link
            /\ poll' = Observe(poll, "SPI.write_unprotect.1", r, m = "retry")
            /\ IF m = "return" THEN Return(Ok) /\ UNCHANGED << i, sleeps >>
               ELSE IF m = "fail" THEN Return(o.res) /\ UNCHANGED << i, sleeps >>
               ELSE IF m = "break"
               THEN pc' = "poll2" /\ i' = 0 /\ UNCHANGED << result, sleeps >>
               ELSE /\ sleeps' = Sleep(sleeps, 100)
                    /\ IF i + 1 = UnprotectFirstPolls
                       THEN pc' = "poll2" /\ i' = 0
                       ELSE pc' = pc /\ i' = i + 1
                    /\ UNCHANGED result
    /\ UNCHANGED << Args, length, response, cursor >>

\* one iteration of the second loop, `for _ in 0..20`
Spi_write_unprotect_poll2 ==
    /\ Running("SPI", "write_unprotect", "poll2")
    /\ \E r \in ReadOutcomes :
         LET o == Spi_ack_frame(link, r)
             m == unprotect_second_match(o.res)
         IN /\ link' = o.link
            /\ poll' = Observe(poll, "SPI.write_unprotect.2", r, m = "retry")
            /\ IF m = "return" THEN Return(Ok) /\ UNCHANGED << i, sleeps >>
               ELSE IF m = "fail" THEN Return(o.res) /\ UNCHANGED << i, sleeps >>
               ELSE /\ sleeps' = Sleep(sleeps, 1000)
                    /\ i' = i + 1
                    /\ IF i + 1 = UnprotectSecondPolls THEN Return(unprotect_exhausted)
                       ELSE UNCHANGED << pc, result >>
    /\ UNCHANGED << Args, length, response, cursor >>

(***************************************************************************)
(* erase_all, spi.rs.                                                      *)
(***************************************************************************)
SpiEraseAttempts == 20

\* [0xFF, 0xFF, 0xFF ^ 0xFF]
special_erase == << 255, 255, BitXor(255, 255) >>

\* a poll loop that also retries on NAK
Spi_erase_all_match_tolerates_nak(res) ==
    IF res.kind = "Ok" THEN "break"
    ELSE IF res \in {CommandFailed(BUSY), CommandFailed(DONE), CommandFailed(NAK)} THEN "retry"
    ELSE "fail"

\* an erase_all that reports the exhausted loop as the serial engine does
Spi_erase_all_exhausted_timeout == Timeout

\* `return Ok(())` after the loop, whether it broke out or ran out
Spi_erase_all_exhausted == Ok

\* the match of the poll loop: Ok breaks, 0xFF and 0xA5 pause and retry
Spi_erase_all_match(res) ==
    IF res.kind = "Ok" THEN "break"
    ELSE IF res = CommandFailed(BUSY) \/ res = CommandFailed(DONE) THEN "retry"
    ELSE "fail"

Spi_erase_all_command ==
    /\ Running("SPI", "erase_all", "start")
    /\ \E r \in ReadOutcomes, w \in WriteOutcomes :
         LET c == Spi_send_command(link, 68, r)
             o == IF c.res.kind # "Ok" THEN c ELSE Spi_write_block(c.link, special_erase, w)
         IN link' = o.link /\ Advance(o.res, "poll")
    /\ UNCHANGED << Args, i, length, response, cursor, sleeps, poll >>

\* one iteration of `for _ in 0..20`; the function returns Ok after the loop
Spi_erase_all_poll ==
    /\ Running("SPI", "erase_all", "poll")
    /\ \E r \in ReadOutcomes :
         LET o == Spi_ack_frame(link, r)
             m == Spi_erase_all_match(o.res)
         IN /\ link' = o.link
            /\ poll' = Observe(poll, "SPI.erase_all", r, m = "retry")
            /\ IF m = "break" THEN Return(Spi_erase_all_exhausted) /\ UNCHANGED << i, sleeps >>
               ELSE IF m = "fail" THEN Return(o.res) /\ UNCHANGED << i, sleeps >>
               ELSE /\ sleeps' = Sleep(sleeps, 1000)
                    /\ i' = i + 1
                    /\ IF i + 1 = SpiEraseAttempts THEN Return(Spi_erase_all_exhausted)
                       ELSE UNCHANGED << pc, result >>
    /\ UNCHANGED << Args, length, response, cursor >>

(***************************************************************************)
(* Reading from the serial port.                                           *)
(***************************************************************************)
Min(a, b) == IF a < b THEN a ELSE b

\* what port.read(&mut buffer) can return: an io::Error, or the next v bytes
\* of the device's stream
PortReads ==
    [t : {"err"}, k : IoKinds, v : {0}]
        \cup [t : {"data"}, k : {""}, v : 1..Min(MaxFrag, Len(stream) - cursor)]

\* the bytes the link hands over when it delivers v more
Fragment(v) == SubSeq(stream, cursor + 1, cursor + v)

\* u8 subtraction: a panic with overflow checks, wrapping without
SubU8(a, b) == IF a >= b THEN a - b ELSE a - b + 256

\* a read_bytes that stops one byte early
read_bytes_done_early(n, want) == n + 1 >= want

\* the exit test of the loop of read_bytes: `if n == size { break }`
read_bytes_done(n, want) == n = want

(***************************************************************************)
(* read_memory, serial.rs.                                                 *)
(***************************************************************************)
\* the values of the parameter `size: u8`
SizeArgs == Byte

\* the sizes requested in the model: the small ones and the largest
Sizes == {s \in SizeArgs : s <= MaxSize \/ s = 255}

\* what an SPI device delivers to the largest request
LongStream == [j \in 1..255 |-> ((7 * j) + 3) % 256]

\* a size frame without the complement
SizeFrame_not_complemented(s) == << SubU8(s, 1), SubU8(s, 1) >>

\* [size - 1, 0xFF ^ (size - 1)]
SizeFrame(s) == << SubU8(s, 1), BitXor(255, SubU8(s, 1)) >>

\* on the serial link the device may deliver any number of bytes up to
\* MaxStream; an SPI read clocks in exactly the bytes asked for
CallReadMemory ==
    /\ op = "idle"
    /\ \E a \in ReadAddresses, s \in Sizes,
          st \in SeqsUpTo(DataBytes, MaxStream) \cup {LongStream} :
         /\ engine = "SPI" => Len(st) = s
         /\ engine = "Serial" => Len(st) <= MaxStream
         /\ Begin("read_memory", a, <<>>, s, st)

Serial_read_memory_command ==
    /\ Running("Serial", "read_memory", "start")
    /\ \E w \in WriteOutcomes, r \in ReadOutcomes :
         LET o == send_command(link, 17, w, r)
         IN link' = o.link /\ Advance(o.res, "address")
    /\ UNCHANGED << Args, i, length, response, cursor, sleeps, poll >>

Serial_read_memory_address ==
    /\ Running("Serial", "read_memory", "address")
    /\ \E w \in WriteOutcomes, r \in ReadOutcomes :
         LET o == write_then_ack(link, AddressFrame(address), w, r)
         IN link' = o.link /\ Advance(o.res, "size")
    /\ UNCHANGED << Args, i, length, response, cursor, sleeps, poll >>

\* `size - 1` is evaluated before anything is written
Serial_read_memory_size ==
    /\ Running("Serial", "read_memory", "size")
    /\ \E w \in WriteOutcomes, r \in ReadOutcomes :
         LET o == IF size = 0 /\ overflow_checks THEN Out(link, Panic)
                  ELSE write_then_ack(link, SizeFrame(size), w, r)
         IN link' = o.link /\ Advance(o.res, "read")
    /\ UNCHANGED << Args, i, length, response, cursor, sleeps, poll >>

\* one iteration of the loop of read_bytes(port, size as usize)
Serial_read_memory_read ==
    /\ Running("Serial", "read_memory", "read")
    /\ \E f \in PortReads :
         /\ link' = LinkRead(link, f.k)
         /\ i' = i + 1
         /\ IF f.t = "err"
            THEN Return(IOError(f.k)) /\ UNCHANGED << response, cursor >>
            ELSE /\ response' = response \o Fragment(f.v)
                 /\ cursor' = cursor + f.v
                 /\ IF read_bytes_done(Len(response) + f.v, size)
                    THEN Return(OkBytes(response'))
                    ELSE UNCHANGED << pc, result >>
    /\ UNCHANGED << Args, length, sleeps, poll >>

(***************************************************************************)
(* read_memory, spi.rs.                                                    *)
(***************************************************************************)
\* the first byte clocked in by read_block is a dummy
DummyBytes == {0, 255}

\* read_block returns the whole buffer of size + 1 bytes
Spi_read_block_returns(buf) == buf

\* send_size: [(size - 1) as u8, ((size - 1) as u8) ^ 0xFF], size - 1 in u16
Spi_send_size(L, s, w) ==
    IF s > 256 THEN Out(L, ProtocolError)
    ELSE IF s = 0 /\ overflow_checks THEN Out(L, Panic)
    ELSE LET low == (IF s = 0 THEN 65535 ELSE s - 1) % 256
         IN Out(LinkWrite(L, << low, BitXor(low, 255) >>, w),
                IF w # "ok" THEN IOError(w) ELSE Ok)

Spi_read_memory_command ==
    /\ Running("SPI", "read_memory", "start")
    /\ \E r \in ReadOutcomes :
         LET o == Spi_send_command(link, 17, r)
         IN link' = o.link /\ Advance(o.res, "address")
    /\ UNCHANGED << Args, i, length, response, cursor, sleeps, poll >>

Spi_read_memory_address ==
    /\ Running("SPI", "read_memory", "address")
    /\ \E w \in WriteOutcomes, r \in ReadOutcomes :
         LET o == then_ack_frame(Spi_send_address(link, address, w), r)
         IN link' = o.link /\ Advance(o.res, "size")
    /\ UNCHANGED << Args, i, length, response, cursor, sleeps, poll >>

Spi_read_memory_size ==
    /\ Running("SPI", "read_memory", "size")
    /\ \E w \in WriteOutcomes, r \in ReadOutcomes :
         LET o == then_ack_frame(Spi_send_size(link, size, w), r)
         IN link' = o.link /\ Advance(o.res, "block")
    /\ UNCHANGED << Args, i, length, response, cursor, sleeps, poll >>

\* read_block(size as usize): one read_exact of size + 1 bytes, the dummy
\* byte followed by the device's data
Spi_read_memory_block ==
    /\ Running("SPI", "read_memory", "block")
    /\ \E k \in IoKinds \cup {"ok"}, dummy \in DummyBytes :
         /\ link' = LinkRead(link, k)
         /\ IF k # "ok"
            THEN Return(IOError(k)) /\ UNCHANGED << response, cursor >>
            ELSE /\ response' = << dummy >> \o stream
                 /\ cursor' = Len(stream)
                 /\ Return(OkBytes(Spi_read_block_returns(response')))
    /\ UNCHANGED << Args, i, length, sleeps, poll >>

(***************************************************************************)
(* supported_functions, serial.rs.                                         *)
(***************************************************************************)
\* the named commands of the protocol and their opcodes
KnownNames ==
    (0 :> "Get") @@ (1 :> "GetVersion") @@ (2 :> "GetId") @@ (17 :> "ReadMemory")
        @@ (33 :> "Go") @@ (49 :> "WriteMemory") @@ (67 :> "Erase")
        @@ (68 :> "ExtendedErase") @@ (80 :> "Special") @@ (81 :> "ExtendedSpecial")
        @@ (99 :> "WriteProtect") @@ (115 :> "WriteUnprotect")
        @@ (130 :> "ReadoutProtect") @@ (146 :> "ReadoutUnprotect")
        @@ (161 :> "GetChecksum")

\* a decoding whose Unknown variant does not keep the byte
FunctionsFrom_unknown_loses_byte(value) ==
    IF value \in DOMAIN KnownNames THEN [name |-> KnownNames[value], value |-> -1]
    ELSE [name |-> "Unknown", value |-> 0]

\* impl From<u8> for Functions
FunctionsFrom(value) ==
    LET known == [name |-> "", value |-> -1]
    IN CASE value = 0 -> [known EXCEPT !.name = "Get"]
         [] value = 1 -> [known EXCEPT !.name = "GetVersion"]
         [] value = 2 -> [known EXCEPT !.name = "GetId"]
         [] value = 17 -> [known EXCEPT !.name = "ReadMemory"]
         [] value = 33 -> [known EXCEPT !.name = "Go"]
         [] value = 49 -> [known EXCEPT !.name = "WriteMemory"]
         [] value = 67 -> [known EXCEPT !.name = "Erase"]
         [] value = 68 -> [known EXCEPT !.name = "ExtendedErase"]
         [] value = 80 -> [known EXCEPT !.name = "Special"]
         [] value = 81 -> [known EXCEPT !.name = "ExtendedSpecial"]
         [] value = 99 -> [known EXCEPT !.name = "WriteProtect"]
         [] value = 115 -> [known EXCEPT !.name = "WriteUnprotect"]
         [] value = 130 -> [known EXCEPT !.name = "ReadoutProtect"]
         [] value = 146 -> [known EXCEPT !.name = "ReadoutUnprotect"]
         [] value = 161 -> [known EXCEPT !.name = "GetChecksum"]
         [] OTHER -> [name |-> "Unknown", value |-> value]

\* the length bytes a device sends in the model
LengthBytes == 0..(MaxStream - 1)

\* a device that announces 254 opcodes and sends them with the version and
\* the ACK: one byte more than response: [u8; 255] holds
FullStream == << 254 >> \o [j \in 1..(BufLen + 1) |-> IF j = BufLen + 1 THEN ACK ELSE 49]

\* port.read(&mut buffer) in the loop of supported_functions: a short stream
\* comes in fragments as in PortReads, a long one in bursts that fill
\* buffer: [u8; 255]
BufferReads ==
    IF Len(stream) - cursor <= MaxStream THEN PortReads
    ELSE [t : {"err"}, k : IoKinds, v : {0}]
            \cup [t : {"data"}, k : {""}, v : {Min(BufLen, Len(stream) - cursor)}]

\* on the serial link the device is silent, or sends a length byte and then
\* some bytes (the SPI engine reads its own variable block)
CallSupportedFunctions ==
    /\ op = "idle"
    /\ \E st \in {<<>>, FullStream} \cup
                 {<< l >> \o body : l \in LengthBytes,
                                   body \in SeqsUpTo(DataBytes, MaxStream)} :
         /\ engine = "SPI" => st = <<>>
         /\ Begin("supported_functions", 0, <<>>, 0, st)

Serial_supported_functions_command ==
    /\ Running("Serial", "supported_functions", "start")
    /\ \E w \in WriteOutcomes, r \in ReadOutcomes :
         LET o == send_command(link, 0, w, r)
         IN link' = o.link /\ Advance(o.res, "length")
    /\ UNCHANGED << Args, i, length, response, cursor, sleeps, poll >>

\* read_exact(&mut length): any error is a ProtocolError
Serial_supported_functions_length ==
    /\ Running("Serial", "supported_functions", "length")
    /\ \E f \in PortReads :
         /\ f.v <= 1
         /\ link' = LinkRead(link, f.k)
         /\ IF f.t = "err"
            THEN Return(ProtocolError) /\ UNCHANGED << length, cursor >>
            ELSE /\ length' = stream[cursor + 1]
                 /\ cursor' = cursor + 1
                 /\ pc' = "read" /\ UNCHANGED result
    /\ UNCHANGED << Args, i, response, sleeps, poll >>

\* after the loop: the last byte must be ACK; response[0] is the version and
\* response[1..n-2] the opcodes (a slice whose start is past its end panics)
supported_functions_decode(resp, n) ==
    IF resp[n] # ACK THEN ProtocolError
    ELSE IF 1 > n - 2 THEN Panic
    ELSE OkInfo(resp[1], [k \in 1..(n - 3) |-> FunctionsFrom(resp[k + 1])])

\* one iteration of the loop accumulating into response: [u8; 255]
Serial_supported_functions_read ==
    /\ Running("Serial", "supported_functions", "read")
    /\ \E f \in BufferReads :
         /\ link' = LinkRead(link, f.k)
         /\ i' = i + 1
         /\ IF f.t = "err"
            THEN Return(ProtocolError) /\ UNCHANGED << response, cursor >>
            ELSE IF Len(response) + f.v > BufLen
            THEN Return(Panic) /\ cursor' = cursor + f.v /\ UNCHANGED response
            ELSE /\ response' = response \o Fragment(f.v)
                 /\ cursor' = cursor + f.v
                 /\ IF Len(response) + f.v = length + 2
                    THEN Return(supported_functions_decode(response', length + 2))
                    ELSE UNCHANGED << pc, result >>
    /\ UNCHANGED << Args, length, sleeps, poll >>

(***************************************************************************)
(* write_unprotect, serial.rs.                                             *)
(***************************************************************************)
Serial_write_unprotect ==
    /\ Running("Serial", "write_unprotect", "start")
    /\ Return(NotImplemented)
    /\ UNCHANGED << Args, i, length, response, cursor, link, sleeps, poll >>

(***************************************************************************)
(* get_version, both engines.                                              *)
(***************************************************************************)
CallGetVersion ==
    /\ op = "idle"
    /\ \E st \in SeqsUpTo(DataBytes, MaxStream) :
         /\ engine = "SPI" => st = <<>>
         /\ Begin("get_version", 0, <<>>, 0, st)

Serial_get_version_command ==
    /\ Running("Serial", "get_version", "start")
    /\ \E w \in WriteOutcomes, r \in ReadOutcomes :
         LET o == send_command(link, 1, w, r)
         IN link' = o.link /\ Advance(o.res, "read")
    /\ UNCHANGED << Args, i, length, response, cursor, sleeps, poll >>

\* read_exact(&mut version) of 4 bytes: it fails when fewer arrive in time
Serial_get_version_read ==
    /\ Running("Serial", "get_version", "read")
    /\ \E k \in IoKinds \cup {"ok"} :
         /\ k = "ok" => Len(stream) >= 4
         /\ link' = LinkRead(link, k)
         /\ IF k # "ok"
            THEN Return(ProtocolError) /\ UNCHANGED << response, cursor >>
            ELSE /\ response' = SubSeq(stream, 1, 4)
                 /\ cursor' = 4
                 /\ IF stream[4] # ACK THEN Return(ProtocolError)
                    ELSE Return(Res("Ok", stream[1], "", << stream[2] * 256 + stream[3] >>))
    /\ UNCHANGED << Args, i, length, sleeps, poll >>

Spi_get_version ==
    /\ Running("SPI", "get_version", "start")
    /\ Return(NotImplemented)
    /\ UNCHANGED << Args, i, length, response, cursor, link, sleeps, poll >>

(***************************************************************************)
(* get_id, serial.rs (spi.rs defines none).                                *)
(***************************************************************************)
\* the length bytes of the model and the two at which length + 2 overflows u8
GetIdLengths == LengthBytes \cup {254, 255}

CallGetId ==
    /\ op = "idle" /\ engine = "Serial"
    /\ \E st \in {<<>>} \cup {<< l >> \o body : l \in GetIdLengths,
                                           body \in SeqsUpTo(DataBytes, MaxStream)} :
         Begin("get_id", 0, <<>>, 0, st)

Serial_get_id_command ==
    /\ Running("Serial", "get_id", "start")
    /\ \E w \in WriteOutcomes, r \in ReadOutcomes :
         LET o == send_command(link, 2, w, r)
         IN link' = o.link /\ Advance(o.res, "length")
    /\ UNCHANGED << Args, i, length, response, cursor, sleeps, poll >>

\* read_exact(&mut length), then `length[0] + 2` in u8
Serial_get_id_length ==
    /\ Running("Serial", "get_id", "length")
    /\ \E f \in PortReads :
         /\ f.v <= 1
         /\ link' = LinkRead(link, f.k)
         /\ IF f.t = "err"
            THEN Return(ProtocolError) /\ UNCHANGED << length, cursor >>
            ELSE /\ length' = stream[cursor + 1]
                 /\ cursor' = cursor + 1
                 /\ IF stream[cursor + 1] + 2 > 255 /\ overflow_checks
                    THEN Return(Panic)
                    ELSE pc' = "read" /\ UNCHANGED result
    /\ UNCHANGED << Args, i, response, sleeps, poll >>

\* after read_bytes: response[2] is indexed before the length is checked
get_id_decode(resp) ==
    IF Len(resp) < 3 THEN Panic
    ELSE IF resp[3] # ACK THEN ProtocolError
    ELSE IF Len(resp) # 3 THEN ProtocolError
    ELSE Res("Ok", resp[1] * 256 + resp[2], "", <<>>)

\* one iteration of the loop of read_bytes(port, (length + 2) as usize)
Serial_get_id_read ==
    /\ Running("Serial", "get_id", "read")
    /\ \E f \in PortReads :
         /\ link' = LinkRead(link, f.k)
         /\ i' = i + 1
         /\ IF f.t = "err"
            THEN Return(IOError(f.k)) /\ UNCHANGED << response, cursor >>
            ELSE /\ response' = response \o Fragment(f.v)
                 /\ cursor' = cursor + f.v
                 /\ IF read_bytes_done(Len(response) + f.v, (length + 2) % 256)
                    THEN Return(get_id_decode(response'))
                    ELSE UNCHANGED << pc, result >>
    /\ UNCHANGED << Args, length, sleeps, poll >>

(***************************************************************************)
(* go, both engines.                                                       *)
(***************************************************************************)
CallGo ==
    /\ op = "idle"
    /\ \E a \in Addresses : Begin("go", a, <<>>, 0, <<>>)

Serial_go_command ==
    /\ Running("Serial", "go", "start")
    /\ \E w \in WriteOutcomes, r \in ReadOutcomes :
         LET o == send_command(link, 33, w, r)
         IN link' = o.link /\ Advance(o.res, "address")
    /\ UNCHANGED << Args, i, length, response, cursor, sleeps, poll >>

Serial_go_address ==
    /\ Running("Serial", "go", "address")
    /\ \E w \in WriteOutcomes, r \in ReadOutcomes :
         LET o == write_then_ack(link, AddressFrame(address), w, r)
         IN link' = o.link /\ Return(o.res)
    /\ UNCHANGED << Args, i, length, response, cursor, sleeps, poll >>

Spi_go_command ==
    /\ Running("SPI", "go", "start")
    /\ \E r \in ReadOutcomes :
         LET o == Spi_send_command(link, 33, r)
         IN link' = o.link /\ Advance(o.res, "address")
    /\ UNCHANGED << Args, i, length, response, cursor, sleeps, poll >>

Spi_go_address ==
    /\ Running("SPI", "go", "address")
    /\ \E w \in WriteOutcomes, r \in ReadOutcomes :
         LET o == then_ack_frame(Spi_send_address(link, address, w), r)
         IN link' = o.link /\ Return(o.res)
    /\ UNCHANGED << Args, i, length, response, cursor, sleeps, poll >>

(***************************************************************************)
(* initialize and supported_functions, spi.rs.                             *)
(***************************************************************************)
\* an initialize that takes "already synced" for success
Spi_initialize_match_done_is_ok(rx) ==
    IF rx[3] = DONE \/ rx[3] = ACK THEN Ok ELSE SyncError

\* rx_buf[2] decides: 0xA5 is AlreadySynced, anything but ACK a SyncError
Spi_initialize_match(rx) ==
    IF rx[3] = DONE THEN AlreadySynced
    ELSE IF rx[3] # ACK THEN SyncError
    ELSE Ok

\* one transfer [0x5A, 0x00, 0x00, 0x79] filling rx_buf, here response; the
\* third byte received is any byte, the others do not matter
Spi_initialize ==
    /\ Running("SPI", "initialize", "start")
    /\ \E k \in IoKinds \cup {"ok"}, b \in Byte :
         /\ link' = LinkTransfer(link, << SOF, 0, 0, ACK >>, k)
         /\ IF k # "ok"
            THEN Return(IOError(k)) /\ UNCHANGED response
            ELSE /\ response' = << 0, 0, b, 0 >>
                 /\ Return(Spi_initialize_match(response'))
    /\ UNCHANGED << Args, i, length, cursor, sleeps, poll >>

\* the second header byte of a variable block
HeaderBytes == {0, 1, 255}

Spi_supported_functions_command ==
    /\ Running("SPI", "supported_functions", "start")
    /\ \E r \in ReadOutcomes :
         LET o == Spi_send_command(link, 0, r)
         IN link' = o.link /\ Advance(o.res, "block")
    /\ UNCHANGED << Args, i, length, response, cursor, sleeps, poll >>

\* read_variable_block: 2 header bytes, then rx_buf[1] + 1 (in u8) bytes
Spi_supported_functions_block ==
    /\ Running("SPI", "supported_functions", "block")
    /\ \E k1 \in IoKinds \cup {"ok"}, h \in HeaderBytes, k2 \in IoKinds \cup {"ok"} :
         IF k1 # "ok"
         THEN link' = LinkRead(link, k1) /\ Return(IOError(k1)) /\ UNCHANGED length
         ELSE IF h + 1 > 255 /\ overflow_checks
         THEN link' = LinkRead(link, k1) /\ Return(Panic) /\ length' = h
         ELSE /\ link' = LinkRead(LinkRead(link, k1), k2)
              /\ length' = h
              /\ Advance(IF k2 # "ok" THEN IOError(k2) ELSE Ok, "ack")
    /\ UNCHANGED << Args, i, response, cursor, sleeps, poll >>

\* ack_frame, then Ok(vec![Functions::Get])
Spi_supported_functions_ack ==
    /\ Running("SPI", "supported_functions", "ack")
    /\ \E r \in ReadOutcomes :
         LET o == Spi_ack_frame(link, r)
         IN /\ link' = o.link
            /\ Return(IF o.res.kind = "Ok" THEN OkInfo(0, << FunctionsFrom(0) >>)
                      ELSE o.res)
    /\ UNCHANGED << Args, i, length, response, cursor, sleeps, poll >>

Next ==
    \/ CallWriteMemory
    \/ CallGetVersion
    \/ CallGetId
    \/ CallGo
    \/ Serial_get_version_command
    \/ Serial_get_version_read
    \/ Spi_get_version
    \/ Serial_get_id_command
    \/ Serial_get_id_length
    \/ Serial_get_id_read
    \/ Serial_go_command
    \/ Serial_go_address
    \/ Spi_go_command
    \/ Spi_go_address
    \/ Spi_initialize
    \/ Spi_supported_functions_command
    \/ Spi_supported_functions_block
    \/ Spi_supported_functions_ack
    \/ Serial_write_unprotect
    \/ CallReadMemory
    \/ CallSupportedFunctions
    \/ Serial_read_memory_command
    \/ Serial_read_memory_address
    \/ Serial_read_memory_size
    \/ Serial_read_memory_read
    \/ Spi_read_memory_command
    \/ Spi_read_memory_address
    \/ Spi_read_memory_size
    \/ Spi_read_memory_block
    \/ Serial_supported_functions_command
    \/ Serial_supported_functions_length
    \/ Serial_supported_functions_read
    \/ CallInitialize
    \/ CallEraseAll
    \/ CallWriteUnprotect
    \/ Serial_initialize_attempt
    \/ Serial_erase_all_command
    \/ Serial_erase_all_poll
    \/ Spi_write_unprotect_command
    \/ Spi_write_unprotect_poll1
    \/ Spi_write_unprotect_poll2
    \/ Spi_erase_all_command
    \/ Spi_erase_all_poll
    \/ Serial_write_memory_command
    \/ Serial_write_memory_address
    \/ Serial_write_memory_data
    \/ Spi_write_memory_command
    \/ Spi_write_memory_address
    \/ Spi_write_memory_write
    \/ Finished

Spec == Init /\ [][Next]_vars

(***************************************************************************)
(* main.rs: the CLI session.  After the connection is opened main calls    *)
(* initialize, get_version, get_id, supported_functions and                *)
(* read_memory(0x1fffc008, 16), then the operation of the subcommand; an   *)
(* error (`?`, exit(1)) or a panic ends the session.                       *)
(***************************************************************************)
\* records of the Intel-HEX file processed by one session
MaxRecords == 3

\* connection.read_memory(0x1fffc008, 16) and connection.read_memory(0x08000000, 16)
OptionBytesAddress == 536854536
FlashAddress == 134217728
MainReadSize == 16

\* what the device delivers to a 16-byte read: nothing, too little, the 16
\* bytes, or one byte more
MainReadStreams ==
    {<<>>, << 49, 121 >>, [j \in 1..MainReadSize |-> 49], [j \in 1..(MainReadSize + 1) |-> 49]}

\* ExtendedLinearAddress(ela) and StartLinearAddress(sla) records
ElaValues == {2048}
SlaValues == {134218177}
\* Data { offset, value } records
DataOffsets == {0, 256}
DataValues == {<<>>, << 18 >>, << 0, 255 >>}

\* a record as the ihex Reader yields it: its kind, its number (ela, sla or
\* offset) and its bytes
Record(kind, n, value) == [kind |-> kind, n |-> n, value |-> value]

\* the session has taken record r from the Reader
Taken(S, r) == [S EXCEPT !.recs = @ + 1, !.file = Append(@, r)]

\* an initialize error that is also tolerated when it is a plain failure
InitializeTolerated_any_error(res) == TRUE

\* the match on connection.initialize(): Ok and AlreadySynced go on
InitializeTolerated(res) == res.kind \in {"Ok", "AlreadySynced"}

\* main calls operation o
Called(S, o) == [S EXCEPT !.calls = Append(@, o)]

\* a session that goes on to the next operation whatever the last one returned
AfterReturn_unchecked(S, res) ==
    LET next == CASE S.at = "initialize" -> "get_version"
                  [] S.at = "get_version" -> "get_id"
                  [] S.at = "get_id" -> "supported_functions"
                  [] S.at = "supported_functions" -> "read_memory"
                  [] S.at = "read_memory" -> "command"
                  [] S.at = "command" /\ S.cmd = "Write" -> "write"
                  [] S.at = "write" -> "write"
                  [] OTHER -> "exit"
    IN [S EXCEPT !.rets = Append(@, res.kind), !.at = next]

\* where main goes when the operation it called at S.at returns res
AfterReturn(S, res) ==
    LET ok == res.kind = "Ok"
        next == CASE S.at = "initialize" ->
                        IF InitializeTolerated(res) THEN "get_version" ELSE "exit"
                  [] S.at = "get_version" -> IF ok THEN "get_id" ELSE "exit"
                  [] S.at = "get_id" -> IF ok THEN "supported_functions" ELSE "exit"
                  [] S.at = "supported_functions" -> IF ok THEN "read_memory" ELSE "exit"
                  [] S.at = "read_memory" -> IF ok THEN "command" ELSE "exit"
                  [] S.at = "command" -> IF S.cmd = "Write" /\ ok THEN "write" ELSE "exit"
                  [] S.at = "write" -> IF ok THEN "write" ELSE "exit"
                  [] OTHER -> "exit"
    IN [S EXCEPT !.rets = Append(@, res.kind), !.at = next]

main_initialize ==
    /\ session.at = "initialize"
    /\ Start("initialize", 0, <<>>, 0, <<>>)
    /\ session' = Called(session, "initialize")

main_get_version ==
    /\ session.at = "get_version" /\ op = "idle"
    /\ \E st \in SeqsUpTo(DataBytes, MaxStream) :
         /\ engine = "SPI" => st = <<>>
         /\ Start("get_version", 0, <<>>, 0, st)
    /\ session' = Called(session, "get_version")

main_get_id ==
    /\ session.at = "get_id" /\ op = "idle"
    /\ \E st \in {<<>>} \cup {<< l >> \o body : l \in GetIdLengths,
                                           body \in SeqsUpTo(DataBytes, MaxStream)} :
         Start("get_id", 0, <<>>, 0, st)
    /\ session' = Called(session, "get_id")

main_supported_functions ==
    /\ session.at = "supported_functions" /\ op = "idle"
    /\ \E st \in {<<>>} \cup {<< l >> \o body : l \in LengthBytes,
                                           body \in SeqsUpTo(DataBytes, MaxStream)} :
         Start("supported_functions", 0, <<>>, 0, st)
    /\ session' = Called(session, "supported_functions")

\* "Read option bytes"
main_read_option_bytes ==
    /\ session.at = "read_memory" /\ op = "idle"
    /\ \E st \in MainReadStreams : Start("read_memory", OptionBytesAddress, <<>>, MainReadSize, st)
    /\ session' = Called(session, "read_memory")

\* Commands::Unprotect
main_unprotect ==
    /\ session.at = "command" /\ session.cmd = ""
    /\ Start("write_unprotect", 0, <<>>, 0, <<>>)
    /\ session' = [Called(session, "write_unprotect") EXCEPT !.cmd = "Unprotect"]

\* Commands::Read
main_read ==
    /\ session.at = "command" /\ session.cmd = "" /\ op = "idle"
    /\ \E st \in MainReadStreams : Start("read_memory", FlashAddress, <<>>, MainReadSize, st)
    /\ session' = [Called(session, "read_memory") EXCEPT !.cmd = "Read"]

\* Commands::EraseAll, or Commands::Write with erase
main_erase_all ==
    /\ session.at = "command" /\ session.cmd = ""
    /\ Start("erase_all", 0, <<>>, 0, <<>>)
    /\ \E c \in {"EraseAll", "Write"} :
         session' = [Called(session, "erase_all") EXCEPT !.cmd = c]

\* Commands::Go
main_go ==
    /\ session.at = "command" /\ session.cmd = "" /\ op = "idle"
    /\ \E a \in Addresses : Start("go", a, <<>>, 0, <<>>)
    /\ session' = [Called(session, "go") EXCEPT !.cmd = "Go"]

\* Commands::Write without erase: straight to the records
main_write ==
    /\ session.at = "command" /\ session.cmd = "" /\ op = "idle"
    /\ session' = [session EXCEPT !.cmd = "Write", !.at = "write"]
    /\ UNCHANGED << overflow_checks, engine, op, pc, address, data, size, i, length,
                    response, stream, cursor, link, sleeps, poll, result >>

\* the next record of the file can be read
MoreRecords == session.at = "write" /\ op = "idle" /\ session.recs < MaxRecords

\* ihex::Record::ExtendedLinearAddress(ela)
main_record_ela ==
    /\ MoreRecords
    /\ \E ela \in ElaValues :
         session' = [Taken(session, Record("ExtendedLinearAddress", ela, <<>>))
                        EXCEPT !.base = ela * 65536]
    /\ UNCHANGED << overflow_checks, engine, op, pc, address, data, size, i, length,
                    response, stream, cursor, link, sleeps, poll, result >>

\* ihex::Record::StartLinearAddress(sla)
main_record_sla ==
    /\ MoreRecords
    /\ \E sla \in SlaValues :
         session' = [Taken(session, Record("StartLinearAddress", sla, <<>>))
                        EXCEPT !.base = sla]
    /\ UNCHANGED << overflow_checks, engine, op, pc, address, data, size, i, length,
                    response, stream, cursor, link, sleeps, poll, result >>

\* ihex::Record::Data { offset, value }
main_record_data ==
    /\ MoreRecords
    /\ \E offset \in DataOffsets, value \in DataValues :
         /\ Start("write_memory", session.base + offset, value, 0, <<>>)
         /\ session' = Called(Taken(session, Record("Data", offset, value)), "write_memory")

\* EndOfFile and the ignored records
main_record_other ==
    /\ MoreRecords
    /\ session' = Taken(session, Record("EndOfFile", 0, <<>>))
    /\ UNCHANGED << overflow_checks, engine, op, pc, address, data, size, i, length,
                    response, stream, cursor, link, sleeps, poll, result >>

\* the file has no more records: `return Ok({})`
main_records_done ==
    /\ session.at = "write" /\ op = "idle"
    /\ session' = [session EXCEPT !.at = "exit"]
    /\ UNCHANGED << overflow_checks, engine, op, pc, address, data, size, i, length,
                    response, stream, cursor, link, sleeps, poll, result >>

\* the operation main called has returned
main_return ==
    /\ Returned
    /\ session' = AfterReturn(session, result)

MainNext ==
    \/ main_initialize
    \/ main_get_version
    \/ main_get_id
    \/ main_supported_functions
    \/ main_read_option_bytes
    \/ main_unprotect
    \/ main_read
    \/ main_erase_all
    \/ main_go
    \/ main_write
    \/ main_record_ela
    \/ main_record_sla
    \/ main_record_data
    \/ main_record_other
    \/ main_records_done
    \/ main_return
    \/ Serial_initialize_attempt
    \/ Spi_initialize
    \/ Serial_get_version_command
    \/ Serial_get_version_read
    \/ Spi_get_version
    \/ Serial_get_id_command
    \/ Serial_get_id_length
    \/ Serial_get_id_read
    \/ Serial_supported_functions_command
    \/ Serial_supported_functions_length
    \/ Serial_supported_functions_read
    \/ Serial_read_memory_command
    \/ Serial_read_memory_address
    \/ Serial_read_memory_size
    \/ Serial_read_memory_read
    \/ Serial_write_unprotect
    \/ Serial_erase_all_command
    \/ Serial_erase_all_poll
    \/ Serial_go_command
    \/ Serial_go_address
    \/ Serial_write_memory_command
    \/ Serial_write_memory_address
    \/ Serial_write_memory_data

MainSpec == Init /\ [][MainNext]_vars

(***************************************************************************)
(* The pure functions of the crate, applied to enumerated inputs.          *)
(***************************************************************************)
\* Functions::from(value) for every u8
CallFrom ==
    /\ op = "idle"
    /\ \E b \in Byte : Begin("from", 0, << b >>, 0, <<>>)

Functions_from ==
    /\ op = "from" /\ pc = "start" /\ result = None
    /\ Return(Res("Ok", 0, "", << FunctionsFrom(data[1]) >>))
    /\ UNCHANGED << Args, i, length, response, cursor, link, sleeps, poll >>

\* the byte sequences handed to calculate_checksum: every one of up to 3
\* bytes over four values, the big-endian addresses, and a long one
ChecksumInputs ==
    (SeqsUpTo({18, 52, 86, 255}, 3) \ {<<>>})
        \cup {to_be_bytes(a) : a \in Addresses}
        \cup {PatternPayload(MaxWriteLen + 1)}

CallCalculateChecksum ==
    /\ op = "idle"
    /\ \E d \in ChecksumInputs : Begin("calculate_checksum", 0, d, 0, <<>>)

Apply_calculate_checksum ==
    /\ op = "calculate_checksum" /\ pc = "start" /\ result = None
    /\ Return(OkBytes(<< calculate_checksum(data) >>))
    /\ UNCHANGED << Args, i, length, response, cursor, link, sleeps, poll >>

\* the 5-byte address frame of the engine of the connection
CallAddressFrame ==
    /\ op = "idle"
    /\ \E a \in Addresses \cup {0, 2147483647} : Begin("address_frame", a, <<>>, 0, <<>>)

\* serial.rs builds it with calculate_checksum, send_address of spi.rs with
\* its own four-fold XOR
Apply_address_frame ==
    /\ op = "address_frame" /\ pc = "start" /\ result = None
    /\ Return(OkBytes(IF engine = "Serial" THEN AddressFrame(address)
                      ELSE Spi_send_address(link, address, "ok").link.tx[1]))
    /\ UNCHANGED << Args, i, length, response, cursor, link, sleeps, poll >>

PureNext ==
    \/ CallFrom
    \/ Functions_from
    \/ CallCalculateChecksum
    \/ Apply_calculate_checksum
    \/ CallAddressFrame
    \/ Apply_address_frame
    \/ Finished

PureSpec == Init /\ [][PureNext]_vars

(***************************************************************************)
(* Claims.                                                                 *)
(***************************************************************************)
\* the frame [len-1] ++ payload ++ checksum of the protocol
DataFrame(payload) ==
    LET out == << (Len(payload) - 1) % 256 >> \o payload
    IN out \o << calculate_checksum(out) >>

\* C1: on the serial engine, once the command frame and the address frame of
\* write_memory have been ACKed, the third frame written to the link is
\* [len-1] ++ payload ++ checksum for the caller's payload.
C1_DataFrameCarriesPayload ==
    (engine = "Serial" /\ op = "write_memory" /\ Len(link.tx) = 3)
        => link.tx[3] = DataFrame(data)

\* C2: on both engines write_memory with an empty payload or one longer than
\* 256 bytes returns ProtocolError with no call on the link, and a payload of
\* 1..256 bytes passes the length check (the command frame goes out).
C2_LengthCheckBeforeIO ==
    /\ (op = "write_memory" /\ (Len(data) = 0 \/ Len(data) > 256))
           => /\ Exchanges(link) = 0 /\ link.tx = <<>>
              /\ pc # "start" => result = ProtocolError
    /\ (op = "write_memory" /\ Len(data) \in 1..256 /\ pc # "start")
           => /\ Len(link.tx) >= 1 /\ Exchanges(link) >= 1
              /\ link.tx[1] = IF engine = "Serial" THEN << 49, 206 >>
                               ELSE << 90, 49, 206, 0, 0, 121 >>
    /\ \A n \in 1..256 : ~LenRejected(n)

C2_Witness ==
    /\ engine = "SPI" /\ op = "write_memory" /\ Len(data) = 257
    /\ result = ProtocolError /\ Exchanges(link) = 0

\* C3: serial initialize writes one sync byte 0x7F per attempt; an ACK or NAK
\* reply returns Ok at that attempt with no further write or read; when every
\* read times out it returns Timeout after exactly 10 writes, 10 reads and 10
\* pauses.
C3_InitializeAttempts ==
    (engine = "Serial" /\ op = "initialize") =>
        /\ \A k \in 1..Len(link.tx) : link.tx[k] = << 127 >>
        /\ link.writes = Len(link.tx) /\ link.reads = poll.n /\ link.writes <= 10
        /\ (121 \in poll.seen \/ 31 \in poll.seen)
              => /\ poll.last \in {121, 31} /\ result = Ok
                 /\ link.writes = poll.n /\ link.reads = poll.n
                 /\ sleeps.n = poll.n - 1
        /\ (poll.n >= 1 /\ poll.seen = {-1})
              => IF poll.n = 10
                 THEN /\ result = Timeout /\ link.writes = 10 /\ link.reads = 10
                      /\ sleeps = [n |-> 10, ms |-> 5000]
                 ELSE poll.n < 10 /\ (result = None \/ result.kind = "IOError")
        /\ result = Timeout
              => link.writes = 10 /\ link.reads = 10 /\ sleeps.n = 10

C3_Witness ==
    /\ engine = "Serial" /\ op = "initialize" /\ result = Timeout
    /\ poll.seen = {-1} /\ link.writes = 10 /\ link.reads = 10 /\ sleeps.n = 10

\* C4: SPI write_unprotect, after its command transfer is ACKed: 0xFF on the
\* first 12 ack-frame polls and ACK on the 13th returns Ok after exactly 13
\* polls; 0xFF on every poll returns Timeout after exactly 30 polls.
C4_UnprotectPollBudget ==
    (engine = "SPI" /\ op = "write_unprotect") =>
        /\ poll.n <= 30 /\ link.xfers <= 31
        /\ (poll.n = 13 /\ poll.firstAck = 13 /\ poll.seen = {255, 121})
              => /\ result = Ok /\ link.xfers = 14
                 /\ sleeps = [n |-> 12, ms |-> 3000]
        /\ (poll.n >= 1 /\ poll.seen = {255})
              => IF poll.n = 30
                 THEN /\ result = Timeout /\ link.xfers = 31
                      /\ sleeps = [n |-> 30, ms |-> 21000]
                 ELSE result = None

C4_Witness ==
    /\ engine = "SPI" /\ op = "write_unprotect" /\ result = Ok
    /\ poll.n = 13 /\ poll.firstAck = 13 /\ poll.seen = {255, 121}

\* C5 as claimed: SPI write_unprotect returns Ok at the first ack-frame poll
\* that returns ACK, in either loop, polls no more after it, and returns
\* Timeout only if no poll of either loop returned ACK.
C5_SuccessAtFirstAck ==
    (engine = "SPI" /\ op = "write_unprotect") =>
        /\ poll.firstAck # 0 => (result = Ok /\ poll.n = poll.firstAck)
        /\ result = Timeout => poll.firstAck = 0

\* C5 as amended: SPI write_unprotect returns Ok at the first ACK of the
\* second (20-poll) loop and polls no more after it; an ACK in the first
\* (10-poll) loop only ends that loop and the second loop polls on; Timeout is
\* returned only when all 20 polls of the second loop returned 0xFF or 0xA5.
C5_SuccessAtFirstAckOfSecondLoop ==
    (engine = "SPI" /\ op = "write_unprotect") =>
        /\ result = Ok => (poll.loop = "SPI.write_unprotect.2" /\ poll.last = 121)
        /\ (poll.loop = "SPI.write_unprotect.2" /\ poll.last = 121)
              => (result = Ok /\ i < 20)
        /\ (poll.loop = "SPI.write_unprotect.1" /\ poll.last = 121)
              => (result = None /\ pc = "poll2" /\ i = 0 /\ poll.n = poll.firstAck)
        /\ result = Timeout
              => /\ poll.loop = "SPI.write_unprotect.2" /\ poll.last \in {255, 165}
                 /\ i = 20 /\ poll.n >= 21

C5_Witness ==
    /\ engine = "SPI" /\ op = "write_unprotect" /\ result = Ok
    /\ poll.firstAck = 3 /\ poll.n = 7

\* C6: serial read_memory(address, size), size >= 1: when the command frame,
\* the 5-byte address frame and the size frame [size-1, ~(size-1)] are ACKed
\* and the device then delivers exactly size bytes in non-empty fragments, the
\* result is those size bytes in the order delivered, and the read that
\* completes the count is the last read on the link.
C6_ReadMemoryReturnsDelivered ==
    (engine = "Serial" /\ op = "read_memory" /\ size >= 1 /\ Len(stream) = size) =>
        /\ cursor >= 1
              => /\ link.tx = << << 17, 238 >>, AddressFrame(address),
                                 << size - 1, 255 - (size - 1) >> >>
                 /\ link.reads = 3 + i
                 /\ response = SubSeq(stream, 1, cursor)
        /\ cursor = size => (result = OkBytes(stream) /\ i >= 1 /\ i <= size)
        /\ (cursor >= 1 /\ cursor < size) => result.kind \in {"None", "IOError"}
        /\ result.kind = "Ok" => (cursor = size /\ result.bytes = stream)

C6_Witness ==
    /\ engine = "Serial" /\ op = "read_memory" /\ size = 3 /\ i = 2
    /\ stream = << 49, 121, 49 >> /\ result = OkBytes(<< 49, 121, 49 >>)

\* C7: SPI read_memory(address, size) returns exactly size bytes: the size + 1
\* bytes read from the link without the leading dummy byte, which is what the
\* serial read_memory returns for the same device data.
C7_SpiReadMemoryReturnsSizeBytes ==
    (engine = "SPI" /\ op = "read_memory" /\ size >= 1 /\ result.kind = "Ok") =>
        /\ Len(result.bytes) = size
        /\ result.bytes = stream

\* C8: serial supported_functions, when the device sends the length byte L
\* and then L+2 bytes (version, L opcodes, a last byte): if the last byte is
\* ACK the result has that version and exactly L entries, the i-th being the
\* decoding of the i-th opcode byte; if it is not ACK the result is
\* ProtocolError.
C8_SupportedFunctionsDecodesAll ==
    (/\ engine = "Serial" /\ op = "supported_functions"
     /\ Len(stream) >= 1 /\ Len(stream) = stream[1] + 3
     /\ cursor = Len(stream)) =>
        LET L == stream[1]
        IN IF stream[L + 3] = 121
           THEN result = OkInfo(stream[2], [k \in 1..L |-> FunctionsFrom(stream[k + 2])])
           ELSE result = ProtocolError

\* C9: serial erase_all, after the command frame is ACKed and the sentinel
\* [0xFF, 0xFF, 0x00] is written, polls at most 20 times; it returns Ok exactly
\* when poll k <= 20 reads ACK after k-1 timed-out polls and polls no more;
\* it returns Timeout if and only if all 20 polls timed out.
C9_EraseAllPolls ==
    (engine = "Serial" /\ op = "erase_all") =>
        /\ poll.n <= 20
        /\ (poll.n >= 1 \/ result = Ok)
              => /\ link.tx = << << 68, 187 >>, << 255, 255, 0 >> >>
                 /\ link.reads = poll.n + 1
        /\ result = Ok
              => /\ poll.last = 121 /\ poll.firstAck = poll.n
                 /\ poll.seen \subseteq {-1, 121}
                 /\ sleeps = [n |-> poll.n - 1, ms |-> 1000 * (poll.n - 1)]
        /\ poll.firstAck # 0 => (result = Ok /\ poll.n = poll.firstAck)
        /\ result = Timeout <=> (poll.n = 20 /\ poll.seen = {-1})

C9_Witness ==
    /\ engine = "Serial" /\ op = "erase_all" /\ result = Ok
    /\ poll.n = 20 /\ poll.seen = {-1, 121}

\* the outcomes the specification names as tolerable, per poll loop
NamedTolerable ==
    { << "Serial.initialize", -1 >>, << "Serial.erase_all", -1 >>,
      << "SPI.write_unprotect.1", 255 >>,
      << "SPI.write_unprotect.2", 255 >>, << "SPI.write_unprotect.2", 165 >>,
      << "SPI.erase_all", 255 >>, << "SPI.erase_all", 165 >> }

\* the outcomes that end a poll loop without an error
LoopSuccess ==
    { << "Serial.initialize", 121 >>, << "Serial.initialize", 31 >>,
      << "Serial.erase_all", 121 >>, << "SPI.write_unprotect.1", 121 >>,
      << "SPI.write_unprotect.2", 121 >>, << "SPI.erase_all", 121 >> }

ErrorKinds == {"SyncError", "ProtocolError", "IOError", "CommandFailed"}

\* a poll loop absorbs only the outcomes in tolerable; any other outcome that
\* is not the loop's success ends the operation with an error at that poll
OnlyAbsorbs(tolerable) ==
    /\ poll.absorbed \subseteq tolerable
    /\ (poll.n >= 1 /\ << poll.loop, poll.last >> \notin (tolerable \cup LoopSuccess))
          => result.kind \in ErrorKinds
    /\ \A t \in poll.seen :
          \/ t = poll.last
          \/ \E l \in {e[1] : e \in tolerable} : << l, t >> \in poll.absorbed
          \/ (t = 121 /\ poll.loop = "SPI.write_unprotect.2")

\* C10 as claimed: every poll loop absorbs only the named outcomes (a read
\* timeout for serial initialize and erase_all, 0xFF for the first SPI
\* write_unprotect loop, 0xFF or 0xA5 for the second and for SPI erase_all);
\* any other status byte or error ends the operation at once with an error.
C10_OnlyNamedOutcomesAbsorbed == OnlyAbsorbs(NamedTolerable)

\* C10 as amended: as claimed, except that serial initialize also absorbs and
\* retries every reply byte other than ACK and NAK.
C10_OnlyNamedOrSyncNoiseAbsorbed ==
    OnlyAbsorbs(NamedTolerable
                    \cup {<< "Serial.initialize", b >> : b \in Byte \ {121, 31}})

C10_Witness ==
    /\ engine = "SPI" /\ op = "erase_all" /\ result = CommandFailed(31)
    /\ poll.n = 3 /\ poll.absorbed = {<< "SPI.erase_all", 255 >>, << "SPI.erase_all", 165 >>}

\* C11: in every serial operation a failure of the link that is not a
\* timeout, on a write or on a read, is returned to the caller as IOError
\* carrying that failure, never as another error kind.
C11_TransportFailureSurfacedAsIOError ==
    (engine = "Serial" /\ link.fault = "Other") => result = IOError("Other")

\* the opcode of the command frame of each serial command operation
Opcode ==
    [o \in {"get_version", "supported_functions", "get_id", "read_memory",
            "write_memory", "go", "erase_all"} |->
        CASE o = "supported_functions" -> 0
          [] o = "get_version" -> 1
          [] o = "get_id" -> 2
          [] o = "read_memory" -> 17
          [] o = "go" -> 33
          [] o = "write_memory" -> 49
          [] o = "erase_all" -> 68]

\* C12: every serial command operation first writes exactly the two bytes
\* [opcode, opcode XOR 0xFF] and, the write done, reads one status byte; at
\* the command frame and at every later ACK wait of get_version,
\* supported_functions, get_id, read_memory, write_memory and go a status
\* byte b other than ACK makes the operation return CommandFailed(b), with
\* nothing written after that wait.
C12_CommandFraming ==
    (engine = "Serial" /\ op \in DOMAIN Opcode) =>
        /\ Len(link.tx) >= 1
              => /\ link.tx[1] = << Opcode[op], 255 - Opcode[op] >>
                 /\ (link.fault = "" => link.reads >= 1)
        /\ (op # "erase_all" /\ link.status \notin {-1, ACK})
              => /\ result = CommandFailed(link.status)
                 /\ link.writes = link.reads
                 /\ Len(link.tx) = link.writes

C12_Witness ==
    /\ engine = "Serial" /\ op = "read_memory" /\ size = 2
    /\ link.status = NAK /\ result = CommandFailed(NAK)
    /\ link.tx = << << 17, 238 >>, AddressFrame(address), << 1, 254 >> >>

\* C13: serial get_id, for every length byte and every response: the result
\* is the big-endian 16-bit id only when the response is exactly two id bytes
\* and a trailing ACK; a complete response of any other size is a
\* ProtocolError; the operation never ends in an out-of-bounds access or an
\* arithmetic overflow.
C13_GetIdExactSize ==
    (engine = "Serial" /\ op = "get_id") =>
        /\ result.kind # "Panic"
        /\ result.kind = "Ok"
              => /\ Len(response) = 3 /\ response[3] = ACK
                 /\ result.code = response[1] * 256 + response[2]
        /\ (cursor >= 1 /\ length # 1 /\ Len(response) = length + 2)
              => result = ProtocolError

\* C14: decoding is total over the 256 byte values; each of the 15 known
\* opcodes decodes to its own named command, every other byte b decodes to
\* Unknown(b), and no other byte decodes to the same value, so the byte is
\* recoverable from the decoded value.
C14_DecodingTotalInjective ==
    (op = "from" /\ result # None) =>
        LET b == data[1]
            f == result.bytes[1]
        IN /\ result.kind = "Ok"
           /\ IF b \in DOMAIN KnownNames
              THEN f.name = KnownNames[b] /\ f.name # "Unknown"
              ELSE f = [name |-> "Unknown", value |-> b]
           /\ \A c \in Byte : FunctionsFrom(c) = f => c = b
           /\ \A c \in DOMAIN KnownNames : KnownNames[c] = f.name => c = b

C14_Witness ==
    /\ op = "from" /\ data = << 161 >>
    /\ result.bytes = << [name |-> "GetChecksum", value |-> -1] >>

\* C15: SPI initialize performs exactly one transfer of the 4 bytes
\* [0x5A, 0x00, 0x00, 0x79] and no other exchange or pause; for every value
\* of the third byte received, 0xA5 gives AlreadySynced, 0x79 gives Ok and
\* any other value gives SyncError.
C15_SpiInitializeClassifies ==
    (engine = "SPI" /\ op = "initialize" /\ result # None) =>
        /\ link.tx = << << 90, 0, 0, 121 >> >>
        /\ link.xfers = 1 /\ Exchanges(link) = 1
        /\ sleeps.n = 0 /\ poll.n = 0
        /\ link.fault = ""
              => /\ Len(response) = 4
                 /\ result = IF response[3] = 165 THEN AlreadySynced
                             ELSE IF response[3] = 121 THEN Ok
                             ELSE SyncError

C15_Witness ==
    /\ engine = "SPI" /\ op = "initialize"
    /\ response = << 0, 0, 165, 0 >> /\ result = AlreadySynced

\* C16: in the CLI session initialize is called exactly once and before any
\* other operation; a further operation is issued only if initialize
\* returned Ok or AlreadySynced; after any other result of initialize the
\* session is over and no operation is issued any more.
C16_InitializeGatesSession ==
    LET calls == session.calls
        rets == session.rets
    IN /\ session.at # "initialize" => Len(calls) >= 1
       /\ Len(calls) >= 1 => calls[1] = "initialize"
       /\ \A k \in 2..Len(calls) : calls[k] # "initialize"
       /\ Len(calls) >= 2 => rets[1] \in {"Ok", "AlreadySynced"}
       /\ (Len(rets) >= 1 /\ rets[1] \notin {"Ok", "AlreadySynced"})
             => /\ session.at = "exit" /\ Len(calls) = 1
                /\ op = "idle" /\ ~ENABLED MainNext
       /\ op # "idle" => Len(calls) >= 1 /\ calls[Len(calls)] = op

C16_Witness ==
    /\ engine = "SPI"
    /\ session.calls = << "initialize", "get_version" >>
    /\ session.rets = << "AlreadySynced" >>
    /\ op = "get_version"

\* the place of the size frame among the frames handed to the link: after the
\* command and the address, and on SPI after the ack frame of the address
SizeFrameAt == IF engine = "SPI" THEN 4 ELSE 3

\* the size frame of a read_memory that got as far as sending it is the
\* byte size-1 followed by its complement, and no size from 1 up panics
SizeFrameSent ==
    (op = "read_memory" /\ size >= 1) =>
        /\ result.kind # "Panic"
        /\ Len(link.tx) >= SizeFrameAt
              => /\ link.tx[SizeFrameAt] = << size - 1, 255 - (size - 1) >>
                 /\ BitXor(link.tx[SizeFrameAt][1], link.tx[SizeFrameAt][2]) = 255

\* C17 as claimed: read_memory accepts every request size from 1 to 256 on
\* both engines, and the size frame sent is size-1 followed by its complement.
C17_ReadMemorySizes1To256 ==
    /\ (1..256) \subseteq SizeArgs
    /\ SizeFrameSent

\* C17 as amended: read_memory accepts every request size from 1 to 255 on
\* both engines (the size parameter is 8 bits wide, 256 cannot be requested),
\* and the size frame sent is size-1 followed by its complement.
C17_ReadMemorySizes1To255 ==
    /\ (1..255) \subseteq SizeArgs
    /\ 256 \notin SizeArgs
    /\ size \in SizeArgs
    /\ SizeFrameSent

C17_Witness ==
    /\ engine = "SPI" /\ op = "read_memory" /\ size = 255
    /\ result.kind = "Ok" /\ Len(result.bytes) = 256
    /\ link.tx[4] = << 254, 1 >>

\* bit k of the XOR of all bytes of s: the parity of the bytes that have it set
XorBit(s, k) == Cardinality({j \in 1..Len(s) : (s[j] \div (2 ^ k)) % 2 = 1}) % 2

\* the byte-wise XOR of all bytes of s
XorAll(s) ==
    XorBit(s, 0) + 2 * XorBit(s, 1) + 4 * XorBit(s, 2) + 8 * XorBit(s, 3)
        + 16 * XorBit(s, 4) + 32 * XorBit(s, 5) + 64 * XorBit(s, 6) + 128 * XorBit(s, 7)

\* C18: calculate_checksum returns the byte-wise XOR of all bytes of every
\* non-empty input ([0x12, 0x34, 0x56] gives 0x70), so bytes ++ checksum(bytes)
\* XORs to 0; the 5-byte address frame of either engine is the big-endian
\* address and a last byte that makes the frame XOR to 0.
C18_ChecksumIsXorFold ==
    /\ (op = "calculate_checksum" /\ result # None)
          => /\ result = OkBytes(<< XorAll(data) >>)
             /\ XorAll(data \o result.bytes) = 0
             /\ data = << 18, 52, 86 >> => result.bytes = << 112 >>
    /\ (op = "address_frame" /\ result # None)
          => /\ result.kind = "Ok" /\ Len(result.bytes) = 5
             /\ SubSeq(result.bytes, 1, 4) = to_be_bytes(address)
             /\ XorAll(result.bytes) = 0

C18_Witness ==
    /\ op = "calculate_checksum" /\ data = << 18, 52, 86 >>
    /\ result = OkBytes(<< 112 >>)

\* C19: SPI erase_all, after the ExtendedErase command transfer and the block
\* [0xFF, 0xFF, 0x00], polls ack_frame at most 20 times; when all 20 polls
\* return 0xFF or 0xA5 it returns Ok, and it never returns Timeout.
C19_SpiEraseAllBestEffort ==
    (engine = "SPI" /\ op = "erase_all") =>
        /\ poll.n <= 20
        /\ result.kind # "Timeout"
        /\ poll.n >= 1
              => /\ link.tx[1] = << 90, 68, 187, 0, 0, 121 >>
                 /\ link.tx[2] = << 255, 255, 0 >>
                 /\ link.xfers = poll.n + 1 /\ link.writes = 1
        /\ (poll.n >= 1 /\ poll.seen \subseteq {255, 165})
              => IF poll.n = 20 THEN result = Ok /\ sleeps = [n |-> 20, ms |-> 20000]
                 ELSE result = None

C19_Witness ==
    /\ engine = "SPI" /\ op = "erase_all"
    /\ poll.n = 20 /\ poll.seen = {255, 165} /\ result = Ok

\* C20: the block SPI write_memory writes for a payload of 1 to 256 bytes is
\* [len-1] ++ payload ++ (one 0xFF iff len is odd) ++ checksum, the checksum
\* being the XOR of every byte before it, the pad included; the block has
\* even length.
C20_SpiWriteBlockEncoding ==
    (engine = "SPI" /\ op = "write_memory" /\ Len(link.tx) >= 4) =>
        LET block == link.tx[4]
            len == Len(data)
            n == Len(block)
        IN /\ len \in 1..256
           /\ block[1] = len - 1
           /\ SubSeq(block, 2, len + 1) = data
           /\ n = IF len % 2 = 1 THEN len + 3 ELSE len + 2
           /\ len % 2 = 1 => block[len + 2] = 255
           /\ n % 2 = 0
           /\ block[n] = XorAll(SubSeq(block, 1, n - 1))

C20_Witness ==
    /\ engine = "SPI" /\ op = "write_memory" /\ data = << 18 >>
    /\ Len(link.tx) = 5 /\ link.tx[4] = << 0, 18, 255, 237 >>
    /\ result = Ok

\* s is an initial part of t
IsPrefix(s, t) == Len(s) <= Len(t) /\ s = SubSeq(t, 1, Len(s))

\* the 6-byte command transfer and the 3-byte ack frame of the SPI protocol
SpiCommandTransfer(opcode) == << 90, opcode, 255 - opcode, 0, 0, 121 >>
SpiAckFrame == << 0, 0, 121 >>

\* what the SPI operation in progress hands to the link when every step
\* succeeds, in order
SpiSteps ==
    LET addr == to_be_bytes(address) \o << XorAll(to_be_bytes(address)) >>
        low == IF size = 0 THEN 255 ELSE size - 1
    IN CASE op = "read_memory" ->
              << SpiCommandTransfer(17), addr, SpiAckFrame, << low, 255 - low >>, SpiAckFrame >>
         [] op = "write_memory" ->
              << SpiCommandTransfer(49), addr, SpiAckFrame,
                 Spi_write_memory_block(data), SpiAckFrame >>
         [] op = "go" -> << SpiCommandTransfer(33), addr, SpiAckFrame >>

\* C21: SPI read_memory, write_memory and go hand their steps to the link
\* strictly in order (command, address, ack frame, then size or block and its
\* ack frame, then the block read), each step only after the one before it
\* succeeded: a non-ACK 5th byte of the command transfer ends the operation
\* with ProtocolError, a non-ACK 2nd byte s of an ack frame ends it with
\* CommandFailed(s), a failed exchange ends it with that error, and nothing
\* is sent afterwards.
C21_SpiStepsInOrder ==
    (engine = "SPI" /\ op \in {"read_memory", "write_memory", "go"}) =>
        /\ IsPrefix(link.tx, SpiSteps)
        /\ link.xfers + link.writes = Len(link.tx)
        /\ link.reads <= 1
        /\ link.reads = 1
              => op = "read_memory" /\ link.tx = SpiSteps /\ result # None
        /\ link.status \notin {-1, ACK}
              => /\ Len(link.tx) \in {1, 3, 5}
                 /\ result = IF Len(link.tx) = 1 THEN ProtocolError
                             ELSE CommandFailed(link.status)
        /\ (link.fault # "" /\ link.status \in {-1, ACK}) => result = IOError(link.fault)
        /\ (result = None /\ Len(link.tx) >= 1) => (link.status = ACK /\ link.fault = "")
        /\ result.kind = "Ok" => link.tx = SpiSteps

C21_Witness ==
    /\ engine = "SPI" /\ op = "write_memory" /\ data = << 18 >>
    /\ Len(link.tx) = 3 /\ link.status = NAK /\ result = CommandFailed(NAK)

\* the base the records taken so far give to a Data record: the most recent
\* ExtendedLinearAddress shifted left 16 bits, 0 if there was none
ElaBase(f) ==
    LET at == {j \in 1..Len(f) : f[j].kind = "ExtendedLinearAddress"}
    IN IF at = {} THEN 0
       ELSE f[CHOOSE j \in at : \A k \in at : k <= j].n * 65536

\* C22: in the CLI write path every Data record (offset, bytes) is passed to
\* write_memory with address = base + offset, where base is the most recent
\* ExtendedLinearAddress record shifted left 16 bits (0 if none); no record
\* of another kind, the start address record included, changes that base.
C22_DataWrittenAtElaBase ==
    (session.at = "write" /\ op = "write_memory") =>
        LET r == session.file[Len(session.file)]
        IN /\ r.kind = "Data"
           /\ data = r.value
           /\ address = ElaBase(session.file) + r.n

\* what every session calls before it looks at the subcommand
Prelude == << "initialize", "get_version", "get_id", "supported_functions", "read_memory" >>

\* the operations of the subcommands
SubcommandOps == {"write_unprotect", "erase_all", "write_memory", "read_memory", "go"}

\* the j-th call of the prelude returned what lets the session go on
PreludeSuccess(j) ==
    session.rets[j] \in (IF j = 1 THEN {"Ok", "AlreadySynced"} ELSE {"Ok"})

\* C23: the CLI session issues initialize, get_version, get_id,
\* supported_functions and a 16-byte read_memory at 0x1FFFC008 in that order,
\* each only after the one before it returned success (AlreadySynced also
\* accepted for initialize); the operation of the subcommand is issued only
\* after all five succeeded, and after an error of any of them, NotImplemented
\* on SPI included, the session has ended and calls nothing more.
C23_PreludeBeforeSubcommand ==
    LET calls == session.calls
        rets == session.rets
    IN /\ Len(rets) <= Len(calls) /\ Len(calls) <= Len(rets) + 1
       /\ \A j \in 1..Len(calls) :
            /\ j <= 5 => calls[j] = Prelude[j]
            /\ j > 5 => calls[j] \in SubcommandOps
            /\ j > 1 => (j - 1 <= 5 => PreludeSuccess(j - 1))
       /\ \A j \in 1..Len(rets) :
            (j <= 5 /\ ~PreludeSuccess(j)) => (Len(calls) = j /\ session.at = "exit")
       /\ (Len(calls) = 5 /\ op = "read_memory")
            => (address = OptionBytesAddress /\ size = MainReadSize)
       /\ (engine = "SPI" /\ Len(rets) >= 2)
            => (rets[2] = "NotImplemented" /\ Len(calls) = 2)

C23_Witness ==
    /\ engine = "Serial" /\ op = "go"
    /\ session.calls = Prelude \o << "go" >>
    /\ session.rets = << "Ok", "Ok", "Ok", "Ok", "Ok" >>

\* size - 1 of read_memory (serial.rs:150, spi.rs:101) stays in its width:
\* no panic, and the byte sent is size - 1
SizeMinusOneInRange ==
    op = "read_memory" =>
        /\ result # Panic
        /\ Len(link.tx) >= SizeFrameAt => link.tx[SizeFrameAt][1] = size - 1

\* length[0] + 2 of UART get_id (serial.rs:122) fits in 8 bits for the length
\* byte the device sent
GetIdLengthInRange ==
    (engine = "Serial" /\ op = "get_id" /\ cursor >= 1) => length + 2 <= 255

\* rx_buf[1] + 1 of SPI read_variable_block (spi.rs:51) fits in 8 bits for
\* the header byte the device sent
HeaderPlusOneInRange ==
    (engine = "SPI" /\ op = "supported_functions") => length + 1 <= 255

\* the bytes UART supported_functions copies into response: [u8; 255]
\* (serial.rs:82-89) never reach past its end
BufferInRange ==
    (engine = "Serial" /\ op = "supported_functions") =>
        /\ cursor - 1 <= BufLen
        /\ Len(response) <= BufLen

\* C24: the length arithmetic of the engines never leaves its integer width
\* for any byte the caller or the device can supply (size - 1 in read_memory
\* on both engines, length + 2 in UART get_id, header + 1 in SPI
\* read_variable_block), and the 255-byte buffer of UART supported_functions
\* is never indexed past its end.
C24_LengthArithmeticInRange ==
    /\ SizeMinusOneInRange
    /\ GetIdLengthInRange
    /\ HeaderPlusOneInRange
    /\ BufferInRange
====
